---- MODULE Spec2Model ----
(***************************************************************************)
(* Model of django/contrib/gis/maps/google/overlays.py: the GEvent,        *)
(* GOverlayBase, GPolygon, GPolyline, GImage and GMarker classes.          *)
(*                                                                         *)
(* A Python string is modelled as the sequence of its pieces (the literal  *)
(* parts of a format string and the converted arguments), so that the      *)
(* text an operation emits can be inspected piece by piece.                *)
(***************************************************************************)
EXTENDS Integers, Sequences, FiniteSets, TLC

VARIABLES
    cls,      \* class of the overlay the program constructs ("none" before)
    args,     \* the arguments the constructor was called with
    status,   \* "none" | "ok" | "TypeError" | "ValueError": how construction ended
    self,     \* the fields of the constructed overlay (NoObj when there is none)
    calls,    \* the events handed to add_event so far, in call order
    result    \* outcome of the last rendering operation

vars == <<cls, args, status, self, calls, result>>

----------------------------------------------------------------------------
(* Bounds of the exploration *)

MaxCoord == 1     \* point coordinates range over 0..MaxCoord
MaxHoles == 1     \* a polygon has at most this many interior rings
MaxEvents == 2    \* at most this many add_event calls per overlay

----------------------------------------------------------------------------
(* Python values *)

PyNone == [t |-> "NoneType", v |-> "None"]
PyStr(s) == [t |-> "str", v |-> s]
PyInt(s) == [t |-> "int", v |-> s]
PyFloat(s) == [t |-> "float", v |-> s]
PyBool(b) == [t |-> "bool", v |-> IF b THEN "True" ELSE "False"]
PyTuple(items) == [t |-> "tuple", items |-> items]

\* A keyword argument the caller did not pass.
Omitted == [t |-> "omitted"]

\* Python truth value, as tested by `if value:`.
Truthy(val) ==
    CASE val.t = "NoneType" -> FALSE
      [] val.t = "bool" -> val.v = "True"
      [] val.t = "int" -> val.v # "0"
      [] val.t = "float" -> val.v # "0.0"
      [] val.t = "str" -> val.v # ""
      [] val.t = "tuple" -> val.items # <<>>
      [] OTHER -> TRUE

\* `fmt % val` with one %s in fmt raises TypeError when val is a tuple whose
\* length is not 1 (the tuple is taken as the argument list).
FormatFails(val) == val.t = "tuple" /\ Len(val.items) # 1

\* The text %s puts for val when `fmt % val` succeeds.
FormatArg(val) == IF val.t = "tuple" THEN val.items[1] ELSE val.v

\* str() of a coordinate: GEOS coordinates are floats.
FloatStr(n) == ToString(n) \o ".0"

RECURSIVE Join(_, _)
\* sep.join(parts), each part a sequence of pieces
Join(parts, sep) ==
    IF parts = <<>> THEN <<>>
    ELSE IF Len(parts) = 1 THEN parts[1]
    ELSE parts[1] \o <<sep>> \o Join(Tail(parts), sep)

----------------------------------------------------------------------------
(* Geometries (django.contrib.gis.geos) *)

\* A geometry value: its kind and its rings, each ring a sequence of
\* coordinates, each coordinate <<x, y>> or <<x, y, z>>.
Geom(kind, rings) == [kind |-> kind, rings |-> rings]

\* geom.coords: a Point's coordinate tuple, a line's tuple of coordinates
coords(geom) ==
    IF geom.kind = "Point" THEN geom.rings[1][1] ELSE geom.rings[1]

\* poly.shell: the exterior ring of a Polygon
shell(poly) == Geom("LinearRing", <<poly.rings[1]>>)

AllCoords(geom) ==
    UNION {{geom.rings[r][i] : i \in DOMAIN geom.rings[r]} : r \in DOMAIN geom.rings}

SetMin(S) == CHOOSE m \in S : \A n \in S : m <= n
SetMax(S) == CHOOSE m \in S : \A n \in S : m >= n

\* geom.envelope: the bounding box of the geometry
envelope(geom) ==
    LET xs == {c[1] : c \in AllCoords(geom)}
        ys == {c[2] : c \in AllCoords(geom)}
    IN  [minx |-> SetMin(xs), miny |-> SetMin(ys),
         maxx |-> SetMax(xs), maxy |-> SetMax(ys)]

\* A constructor input: the Python type of the value and what it holds.
\* A basestring holds the geometry its WKT text describes; a tuple or list
\* holds raw coordinates; anything else holds nothing.
Input(py, val) == [py |-> py, val |-> val]

Raw(crds) == Geom("raw", <<crds>>)
Nothing == Geom("raw", <<>>)

\* fromstr(text): the geometry the text describes
fromstr(inp) == Input("geom", inp.val)

\* Point(tuple)
Point(inp) == Input("geom", Geom("Point", inp.val.rings))

\* Polygon(tuple): the tuple is the exterior ring
Polygon(inp) == Input("geom", Geom("Polygon", inp.val.rings))

\* isinstance(value, kinds) for the GEOS classes
IsInstance(inp, kinds) == inp.py = "geom" /\ inp.val.kind \in kinds

----------------------------------------------------------------------------
(* class GEvent *)

\* GEvent.__init__
GEvent(event, action) == [event |-> event, action |-> action]

\* mark_safe(text): the same text, flagged as needing no escaping
mark_safe(text) == [status |-> "ok", out |-> text, safe |-> TRUE]

\* GEvent.__unicode__: '"%s", %s' % (self.event, self.action)
GEvent_unicode(ev) == mark_safe(<<"\"", ev.event, "\", ", ev.action>>)

----------------------------------------------------------------------------
(* class GOverlayBase *)

NoObj == [none |-> TRUE]

\* What a raised exception leaves behind: no object, no text.
Raise(exc) == [status |-> exc, obj |-> NoObj, out |-> <<>>, safe |-> FALSE]
Return(obj) == [status |-> "ok", obj |-> obj]

\* GOverlayBase.__init__: self.events = []
GOverlayBase_init == <<>>

\* `for x, y in coords` raises ValueError unless every coordinate has
\* exactly two components.
Unpacks(crds) == \A i \in DOMAIN crds : Len(crds[i]) = 2

\* 'new google.maps.LatLng(%s,%s)' % (lat, lng)
LatLng(lat, lng) ==
    <<"new google.maps.LatLng(", FloatStr(lat), ",", FloatStr(lng), ")">>

\* GOverlayBase.latlng_from_coords, for coords that unpack
latlng_from_coords(crds) ==
    <<"[">> \o Join([i \in DOMAIN crds |-> LatLng(crds[i][2], crds[i][1])], ",")
            \o <<"]">>

\* Variant: an event already attached is not attached again
add_event_dedup(obj, event) ==
    IF \E i \in DOMAIN obj.events : obj.events[i] = event THEN obj
    ELSE [obj EXCEPT !.events = Append(@, event)]

\* GOverlayBase.add_event
add_event(obj, event) == [obj EXCEPT !.events = Append(@, event)]

\* One entry of the `result` list of a js_params property: whether its `if`
\* appends it, the exception building it raises ("" for none), its text.
Item(on, exc, text) == [on |-> on, exc |-> exc, text |-> text]

\* 'key: %s' % val, with val already text
Plain(key, text) == Item(TRUE, "", <<key, ": ">> \o text)

\* Variant: the field is appended whatever the value
Quoted_always(key, val) ==
    Item(TRUE,
         IF FormatFails(val) THEN "TypeError" ELSE "",
         IF FormatFails(val) THEN <<>> ELSE <<key, ": \"", FormatArg(val), "\"">>)

\* if val: result.append('key: "%s"' % val)
Quoted(key, val) ==
    Item(Truthy(val),
         IF FormatFails(val) THEN "TypeError" ELSE "",
         IF FormatFails(val) THEN <<>> ELSE <<key, ": \"", FormatArg(val), "\"">>)

Appended(items) == SelectSeq(items, LAMBDA it : it.on)

\* '{%s}' % ','.join(result), or the first exception raised on the way
Braces(items) ==
    LET app == Appended(items)
        bad == {i \in DOMAIN app : app[i].exc # ""}
    IN  IF bad # {} THEN Raise(app[SetMin(bad)].exc)
        ELSE [status |-> "ok",
              out |-> <<"{">> \o Join([i \in DOMAIN app |-> app[i].text], ",") \o <<"}">>]

JS_CLASSNAME(c) ==
    CASE c = "GPolygon" -> "Polygon"
      [] c = "GPolyline" -> "Polyline"
      [] c = "GMarker" -> "Marker"
      [] OTHER -> "Overlay"

\* GOverlayBase.__unicode__, given the outcome of self.js_params
GOverlayBase_unicode(c, params) ==
    IF params.status # "ok" THEN Raise(params.status)
    ELSE mark_safe(<<"google.maps.", JS_CLASSNAME(c), "(">> \o params.out \o <<")">>)

\* A keyword argument's value: what was passed, or the default
Arg(passed, default) == IF passed = Omitted THEN default ELSE passed

----------------------------------------------------------------------------
(* class GPolygon *)

\* The geometry GPolygon.__init__ and GPolyline.__init__ work on after the
\* two coercion lines
CoercePoly(inp) ==
    LET g1 == IF inp.py = "basestring" THEN fromstr(inp) ELSE inp
    IN  IF g1.py \in {"tuple", "list"} THEN Polygon(g1) ELSE g1

RECURSIVE Concat(_)
Concat(rings) == IF rings = <<>> THEN <<>> ELSE Head(rings) \o Concat(Tail(rings))

\* Variant: the coordinates of every ring, interior rings included
AllRingCoords(poly) == Concat(poly.rings)

\* poly.shell.coords: the coordinates both classes take from a Polygon
ExteriorCoords(poly) == coords(shell(poly))

\* GPolygon.__init__
GPolygon_init(a) ==
    LET poly == CoercePoly(a.geom)
    IN  IF ~IsInstance(poly, {"Polygon"}) THEN Raise("TypeError")
        ELSE IF ~Unpacks(ExteriorCoords(poly.val)) THEN Raise("ValueError")
        ELSE Return([envelope |-> envelope(poly.val),
                     points |-> latlng_from_coords(ExteriorCoords(poly.val)),
                     stroke_color |-> Arg(a.stroke_color, PyStr("#0000ff")),
                     stroke_opacity |-> Arg(a.stroke_opacity, PyInt("1")),
                     stroke_weight |-> Arg(a.stroke_weight, PyInt("2")),
                     fill_color |-> Arg(a.fill_color, PyStr("#0000ff")),
                     fill_opacity |-> Arg(a.fill_opacity, PyFloat("0.4")),
                     events |-> GOverlayBase_init])

\* GPolygon.js_params
GPolygon_js_params(obj) ==
    Braces(<<Plain("paths", obj.points),
             Quoted("strokeColor", obj.stroke_color),
             Quoted("strokeWeight", obj.stroke_weight),
             Quoted("strokeOpacity", obj.stroke_opacity),
             Quoted("fillColor", obj.fill_color),
             Quoted("fillOpactiy", obj.fill_opacity)>>)

----------------------------------------------------------------------------
(* class GPolyline *)

\* GPolyline.__init__
GPolyline_init(a) ==
    LET geom == CoercePoly(a.geom)
        crds == IF IsInstance(geom, {"LineString", "LinearRing"})
                THEN coords(geom.val)
                ELSE ExteriorCoords(geom.val)
    IN  IF ~IsInstance(geom, {"LineString", "LinearRing", "Polygon"})
        THEN Raise("TypeError")
        ELSE IF ~Unpacks(crds) THEN Raise("ValueError")
        ELSE Return([latlngs |-> latlng_from_coords(crds),
                     envelope |-> envelope(geom.val),
                     color |-> Arg(a.color, PyStr("#0000ff")),
                     weight |-> Arg(a.weight, PyInt("2")),
                     opacity |-> Arg(a.opacity, PyInt("1")),
                     events |-> GOverlayBase_init])

\* GPolyline.js_params
GPolyline_js_params(obj) ==
    Braces(<<Plain("path", obj.latlngs),
             Quoted("strokeColor", obj.color),
             Quoted("strokeWeight", obj.weight),
             Quoted("strokeOpacity", obj.opacity)>>)

----------------------------------------------------------------------------
(* class GImage *)

\* GImage.__init__
GImage(url, size, origin, anchor) ==
    [t |-> "GImage", url |-> url,
     size |-> Arg(size, PyNone), origin |-> Arg(origin, PyNone),
     anchor |-> Arg(anchor, PyNone)]

\* GImage._to_param
GImage_to_param(img) ==
    LET anchorFails == Truthy(img.anchor) /\ FormatFails(img.anchor)
        originFails == Truthy(img.origin) /\ (FormatFails(img.origin) \/ anchorFails)
        sizeFails == Truthy(img.size) /\ (FormatFails(img.size) \/ originFails)
        anchorText == IF Truthy(img.anchor)
                      THEN <<", new google.maps.Point(", FormatArg(img.anchor), ")">>
                      ELSE <<>>
        originText == IF Truthy(img.origin)
                      THEN <<", new google.maps.Point(", FormatArg(img.origin), ")">>
                           \o anchorText
                      ELSE <<>>
        sizeText == IF Truthy(img.size)
                    THEN <<", new google.maps.Size(", FormatArg(img.size), ")">>
                         \o originText
                    ELSE <<>>
    IN  IF FormatFails(img.url) \/ sizeFails THEN Raise("TypeError")
        ELSE [status |-> "ok", safe |-> FALSE,
              out |-> <<"new google.maps.MarkerImage(", "(", FormatArg(img.url)>>
                      \o sizeText \o <<")", ")">>]

----------------------------------------------------------------------------
(* class GMarker *)

\* Variant: the two coordinates in the order they are stored
GMarker_latlng_from_coords_xy(crds) == LatLng(crds[1], crds[2])

\* GMarker.latlng_from_coords
GMarker_latlng_from_coords(crds) == LatLng(crds[2], crds[1])

\* Variant: a tuple or list is not turned into a Point
CoercePoint_notuple(inp) == IF inp.py = "basestring" THEN fromstr(inp) ELSE inp

\* The geometry GMarker.__init__ works on after the two coercion lines
CoercePoint(inp) ==
    LET g1 == IF inp.py = "basestring" THEN fromstr(inp) ELSE inp
    IN  IF g1.py \in {"tuple", "list"} THEN Point(g1) ELSE g1

\* GMarker.__init__
GMarker_init(a) ==
    LET geom == CoercePoint(a.geom)
    IN  IF ~IsInstance(geom, {"Point"}) THEN Raise("TypeError")
        ELSE Return([latlng |-> GMarker_latlng_from_coords(coords(geom.val)),
                     envelope |-> envelope(geom.val),
                     title |-> Arg(a.title, PyNone),
                     draggable |-> Arg(a.draggable, PyBool(FALSE)),
                     icon |-> Arg(a.icon, PyNone),
                     shadow |-> Arg(a.shadow, PyNone),
                     visible |-> Arg(a.visible, PyBool(TRUE)),
                     events |-> GOverlayBase_init])

\* self.icon._to_param() as an entry of the result list
IconItem(icon) ==
    LET made == IF icon.t = "GImage" THEN GImage_to_param(icon)
                ELSE Raise("AttributeError")
    IN  Item(Truthy(icon),
             IF made.status = "ok" THEN "" ELSE made.status,
             <<"icon", ": ">> \o made.out)

\* self.shadow_to_param(): GMarker has no attribute of that name
ShadowItem(shadow) == Item(Truthy(shadow), "AttributeError", <<>>)

\* GMarker.js_params
GMarker_js_params(obj) ==
    Braces(<<Plain("position", obj.latlng),
             Quoted("title", obj.title),
             IconItem(obj.icon),
             ShadowItem(obj.shadow),
             Item(Truthy(obj.draggable), "", <<"draggable", ": ", "true">>),
             Item(~Truthy(obj.visible), "", <<"visible", ": ", "false">>)>>)

\* self.js_params, dispatched on the class of the overlay
js_params(c, obj) ==
    CASE c = "GPolygon" -> GPolygon_js_params(obj)
      [] c = "GPolyline" -> GPolyline_js_params(obj)
      [] c = "GMarker" -> GMarker_js_params(obj)

\* unicode(overlay)
Unicode(c, obj) == GOverlayBase_unicode(c, js_params(c, obj))

----------------------------------------------------------------------------
(* The values the program is run on *)

Grid == 0..MaxCoord

\* Coordinates of the points: every 2D grid point and one with a z value
PointCoords == {<<x, y>> : x \in Grid, y \in Grid} \cup {<<MaxCoord, 0, MaxCoord>>}

WithZ(ring) == [i \in DOMAIN ring |-> Append(ring[i], 0)]

Path == <<<<0, 0>>, <<1, 2>>, <<3, 1>>>>

Side == MaxHoles + 3
Square == <<<<0, 0>>, <<Side, 0>>, <<Side, Side>>, <<0, Side>>, <<0, 0>>>>

\* The k-th interior ring: a triangle strictly inside Square
Hole(k) == <<<<k, 1>>, <<k + 1, 1>>, <<k, 2>>, <<k, 1>>>>

Rings(n) == <<Square>> \o [k \in 1..n |-> Hole(k)]

PointGeoms == {Geom("Point", <<<<c>>>>) : c \in PointCoords}
LineGeoms ==
    {Geom("LineString", <<Path>>), Geom("LineString", <<WithZ(Path)>>),
     Geom("LinearRing", <<Square>>)}
PolygonGeoms ==
    {Geom("Polygon", Rings(n)) : n \in 0..MaxHoles} \cup
    {Geom("Polygon", [r \in DOMAIN Rings(n) |-> WithZ(Rings(n)[r])]) : n \in 0..MaxHoles}
OtherGeoms == {Geom("MultiPoint", <<Path>>)}

Geoms == PointGeoms \cup LineGeoms \cup PolygonGeoms \cup OtherGeoms

\* Geometries also passed as their WKT text
TextGeoms ==
    {Geom("Point", <<<<<<0, MaxCoord>>>>>>), Geom("LineString", <<Path>>),
     Geom("Polygon", Rings(MaxHoles)), Geom("MultiPoint", <<Path>>)}

CommonInputs ==
    {Input("geom", g) : g \in Geoms} \cup
    {Input("basestring", g) : g \in TextGeoms} \cup
    {Input("int", Nothing), Input("NoneType", Nothing)}

\* A tuple or list handed to GMarker is a coordinate tuple
MarkerInputs ==
    CommonInputs \cup
    {Input("tuple", Raw(<<<<MaxCoord, 0>>>>)), Input("tuple", Raw(<<<<0, MaxCoord, 0>>>>)),
     Input("list", Raw(<<<<0, MaxCoord>>>>))}

\* A tuple or list handed to GPolyline or GPolygon is a ring of coordinates
PolyInputs ==
    CommonInputs \cup
    {Input("tuple", Raw(Square)), Input("list", Raw(WithZ(Square)))}

Colors == {Omitted, PyStr(""), PyStr("#ff0000")}
Weights == {Omitted, PyInt("0"), PyInt("5")}
Opacities == {Omitted, PyNone, PyFloat("0.5")}
FillOpacities == {Omitted, PyFloat("0.0"), PyFloat("0.8")}

Titles == {Omitted, PyStr(""), PyStr("Home")}
Draggables == {Omitted, PyBool(TRUE)}
Visibles == {Omitted, PyBool(FALSE)}

Url == PyStr("/media/icon/star.png")
Sizes == {Omitted, PyStr("15, 10"), PyTuple(<<"15", "10">>)}
Origins == {Omitted, PyStr("30, 0")}
Anchors == {Omitted, PyStr("7, 5")}
Images == {GImage(Url, s, o, a) : s \in Sizes, o \in Origins, a \in Anchors}
Icons == {Omitted, PyNone} \cup Images
Shadows == {Omitted, GImage(Url, Omitted, Omitted, Omitted)}

EventArgs ==
    {GEvent("click", "function() { location.href = \"http://www.google.com\"}"),
     GEvent("mouseover", "function() { alert('<b>&</b>'); }")}

----------------------------------------------------------------------------
(* The program: construct one overlay, attach events to it, render it *)

NoArgs == [geom |-> Input("NoneType", Nothing)]
NoResult == [op |-> "none", of |-> "", status |-> "none", out |-> <<>>, safe |-> FALSE]

Outcome(op, of, r) ==
    [op |-> op, of |-> of, status |-> r.status, out |-> r.out, safe |-> r.safe]

Init ==
    /\ cls = "none"
    /\ args = NoArgs
    /\ status = "none"
    /\ self = NoObj
    /\ calls = <<>>
    /\ result = NoResult

Constructed(c, a, r) ==
    /\ cls' = c
    /\ args' = a
    /\ status' = r.status
    /\ self' = r.obj
    /\ UNCHANGED <<calls, result>>

\* GPolygon(poly, stroke_color=.., stroke_weight=.., stroke_opacity=..,
\*          fill_color=.., fill_opacity=..)
ConstructGPolygon ==
    /\ status = "none"
    /\ \E g \in PolyInputs, sc \in Colors, sw \in Weights, so \in Opacities,
           fc \in Colors, fo \in FillOpacities :
            LET a == [geom |-> g, stroke_color |-> sc, stroke_weight |-> sw,
                      stroke_opacity |-> so, fill_color |-> fc, fill_opacity |-> fo]
            IN  Constructed("GPolygon", a, GPolygon_init(a))

\* GPolyline(geom, color=.., weight=.., opacity=..)
ConstructGPolyline ==
    /\ status = "none"
    /\ \E g \in PolyInputs, c \in Colors, w \in Weights, o \in Opacities :
            LET a == [geom |-> g, color |-> c, weight |-> w, opacity |-> o]
            IN  Constructed("GPolyline", a, GPolyline_init(a))

\* GMarker(geom, title=.., draggable=.., icon=.., shadow=.., visible=..)
ConstructGMarker ==
    /\ status = "none"
    /\ \E g \in MarkerInputs, t \in Titles, d \in Draggables, i \in Icons,
           s \in Shadows, v \in Visibles :
            LET a == [geom |-> g, title |-> t, draggable |-> d, icon |-> i,
                      shadow |-> s, visible |-> v]
            IN  Constructed("GMarker", a, GMarker_init(a))

\* overlay.add_event(event)
AddEvent ==
    /\ status = "ok"
    /\ Len(calls) < MaxEvents
    /\ \E e \in EventArgs :
        /\ self' = add_event(self, e)
        /\ calls' = Append(calls, e)
    /\ UNCHANGED <<cls, args, status, result>>

\* Variant: rendering consumes the attached events
Render_consuming ==
    /\ status = "ok"
    /\ result' = Outcome("render", "", Unicode(cls, self))
    /\ self' = [self EXCEPT !.events = <<>>]
    /\ UNCHANGED <<cls, args, status, calls>>

\* unicode(overlay)
Render ==
    /\ status = "ok"
    /\ result' = Outcome("render", "", Unicode(cls, self))
    /\ UNCHANGED <<cls, args, status, self, calls>>

\* unicode(overlay.events[i])
RenderEvent ==
    /\ status = "ok"
    /\ \E i \in DOMAIN self.events :
        result' = Outcome("event", ToString(i), GEvent_unicode(self.events[i]))
    /\ UNCHANGED <<cls, args, status, self, calls>>

\* marker.icon._to_param() and marker.shadow._to_param()
ToParam ==
    /\ status = "ok"
    /\ cls = "GMarker"
    /\ \E which \in {"icon", "shadow"} :
        /\ self[which].t = "GImage"
        /\ result' = Outcome("to_param", which, GImage_to_param(self[which]))
    /\ UNCHANGED <<cls, args, status, self, calls>>

Next ==
    \/ ConstructGPolygon
    \/ ConstructGPolyline
    \/ ConstructGMarker
    \/ AddEvent
    \/ Render
    \/ RenderEvent
    \/ ToParam

Spec == Init /\ [][Next]_vars

----------------------------------------------------------------------------
(* Vocabulary of the properties *)

Accepted(c) ==
    CASE c = "GMarker" -> {"Point"}
      [] c = "GPolyline" -> {"LineString", "LinearRing", "Polygon"}
      [] c = "GPolygon" -> {"Polygon"}
      [] OTHER -> {}

\* Kind of the geometry the constructor of class c sees after coercion
\* ("none" when the input is no geometry and is not coerced to one)
KindSeen(c, inp) ==
    CASE inp.py \in {"geom", "basestring"} -> inp.val.kind
      [] inp.py \in {"tuple", "list"} -> IF c = "GMarker" THEN "Point" ELSE "Polygon"
      [] OTHER -> "none"

RenderedOk == result.op = "render" /\ result.status = "ok"

LatLngCount(text) ==
    Cardinality({i \in DOMAIN text : text[i] = "new google.maps.LatLng("})

\* text is "[" e1 "," e2 ... "]" with n entries new google.maps.LatLng(a,b)
IsLatLngArray(text, n) ==
    /\ Len(text) = IF n = 0 THEN 2 ELSE 6 * n + 1
    /\ text[1] = "[" /\ text[Len(text)] = "]"
    /\ \A i \in 1..n :
        /\ text[6 * i - 4] = "new google.maps.LatLng("
        /\ text[6 * i - 2] = ","
        /\ text[6 * i] = ")"
        /\ i < n => text[6 * i + 1] = ","

\* the two arguments of the i-th entry of such an array
Entry(text, i) == <<text[6 * i - 3], text[6 * i - 1]>>

\* the options object in text has a field under one of the keys
HasField(text, keys) ==
    \E i \in 1..(Len(text) - 1) : text[i] \in keys /\ text[i + 1] \in {": ", ": \""}

\* ... and that field is key: "value"
HasFieldValue(text, keys, value) ==
    \E i \in 1..(Len(text) - 3) :
        /\ text[i] \in keys /\ text[i + 1] = ": \""
        /\ text[i + 2] = value /\ text[i + 3] = "\""

Opt(arg, keys, default) == [arg |-> arg, keys |-> keys, default |-> default]

\* The style options of each class, the keys a field for the option may be
\* emitted under, and the text of the documented default
Options(c) ==
    CASE c = "GPolygon" ->
            {Opt("stroke_color", {"strokeColor"}, "#0000ff"),
             Opt("stroke_weight", {"strokeWeight"}, "2"),
             Opt("stroke_opacity", {"strokeOpacity"}, "1"),
             Opt("fill_color", {"fillColor"}, "#0000ff"),
             Opt("fill_opacity", {"fillOpacity", "fillOpactiy"}, "0.4")}
      [] c = "GPolyline" ->
            {Opt("color", {"strokeColor"}, "#0000ff"),
             Opt("weight", {"strokeWeight"}, "2"),
             Opt("opacity", {"strokeOpacity"}, "1")}
      [] c = "GMarker" ->
            {Opt("title", {"title"}, ""), Opt("draggable", {"draggable"}, ""),
             Opt("visible", {"visible"}, ""), Opt("icon", {"icon"}, ""),
             Opt("shadow", {"shadow"}, "")}
      [] OTHER -> {}

EmptyValues == {PyNone, PyStr(""), PyInt("0"), PyFloat("0.0"), PyBool(FALSE)}

\* Option names of the google.maps classes
ApiOptions(c) ==
    CASE c = "GPolygon" ->
            {"paths", "strokeColor", "strokeWeight", "strokeOpacity",
             "fillColor", "fillOpacity"}
      [] c = "GPolyline" -> {"path", "strokeColor", "strokeWeight", "strokeOpacity"}
      [] c = "GMarker" ->
            {"position", "title", "icon", "shadow", "draggable", "visible"}
      [] OTHER -> {}

----------------------------------------------------------------------------
(* C1 *)

\* C1: construction ends in the type-mismatch error exactly when the
\* geometry seen after coercion is outside the accepted set of the class;
\* in every accepted case it succeeds, and a failure leaves no overlay.
C1_MismatchExactlyOutsideAccepted ==
    status # "none" =>
        LET acc == KindSeen(cls, args.geom) \in Accepted(cls)
        IN  /\ (status = "TypeError") <=> ~acc
            /\ acc => status = "ok" /\ self # NoObj
            /\ status # "ok" => self = NoObj

----------------------------------------------------------------------------
(* C2 *)

\* C2: rendering a successfully constructed overlay never fails.
C2_RenderingNeverFails ==
    result.op = "render" => result.status = "ok"

----------------------------------------------------------------------------
(* C3 *)

\* The x and y of the point a marker was constructed on
MarkerX == args.geom.val.rings[1][1][1]
MarkerY == args.geom.val.rings[1][1][2]

\* the one LatLng pair in text has the arguments (first, second)
OnePair(text, first, second) ==
    /\ LatLngCount(text) = 1
    /\ \E i \in 1..(Len(text) - 4) :
        /\ text[i] = "new google.maps.LatLng("
        /\ text[i + 1] = FloatStr(first) /\ text[i + 2] = ","
        /\ text[i + 3] = FloatStr(second) /\ text[i + 4] = ")"

\* C3 as stated: the marker's position holds exactly one LatLng pair whose
\* first argument is the longitude x and whose second is the latitude y.
C3_PositionIsLngLat ==
    (cls = "GMarker" /\ status = "ok") =>
        /\ OnePair(self.latlng, MarkerX, MarkerY)
        /\ RenderedOk => OnePair(result.out, MarkerX, MarkerY)

\* C3 as amended: the marker's position holds exactly one LatLng pair whose
\* first argument is the latitude y and whose second is the longitude x.
C3_PositionIsLatLng ==
    (cls = "GMarker" /\ status = "ok") =>
        /\ OnePair(self.latlng, MarkerY, MarkerX)
        /\ RenderedOk => OnePair(result.out, MarkerY, MarkerX)

C3_Witness ==
    /\ cls = "GMarker" /\ status = "ok" /\ RenderedOk
    /\ MarkerX # MarkerY

----------------------------------------------------------------------------
(* C4 *)

OnPolygon ==
    /\ cls \in {"GPolygon", "GPolyline"} /\ status = "ok"
    /\ KindSeen(cls, args.geom) = "Polygon"

\* the coordinate array the overlay holds
EmittedArray == IF cls = "GPolygon" THEN self.points ELSE self.latlngs

\* the (lat, lng) texts of the coordinates of the interior rings
InteriorEntries ==
    LET rings == args.geom.val.rings
    IN  UNION {{<<FloatStr(rings[r][i][2]), FloatStr(rings[r][i][1])>> :
                    i \in DOMAIN rings[r]} : r \in 2..Len(rings)}

\* C4: the coordinate array GPolygon, and GPolyline given a Polygon, emits
\* has exactly one entry per coordinate of the exterior ring, in the ring's
\* order, and no entry from an interior ring.
C4_OnlyExteriorRing ==
    OnPolygon =>
        LET ext == args.geom.val.rings[1]
            arr == EmittedArray
        IN  /\ IsLatLngArray(arr, Len(ext))
            /\ \A i \in 1..Len(ext) :
                /\ Entry(arr, i) = <<FloatStr(ext[i][2]), FloatStr(ext[i][1])>>
                /\ Entry(arr, i) \notin InteriorEntries
            /\ RenderedOk => LatLngCount(result.out) = Len(ext)

C4_Witness ==
    /\ OnPolygon /\ cls = "GPolygon" /\ RenderedOk
    /\ Len(args.geom.val.rings) = MaxHoles + 1

----------------------------------------------------------------------------
(* C5 *)

\* C5 as stated: an option the caller did not supply has no field in the
\* rendered options object.
C5_OmittedOptionsAbsent ==
    RenderedOk =>
        \A o \in Options(cls) :
            args[o.arg] = Omitted => ~HasField(result.out, o.keys)

\* C5 as amended: an omitted marker option (title, draggable, visible,
\* icon, shadow) has no field in the rendered options object; an omitted
\* stroke or fill option of a polyline or polygon takes its default and is
\* rendered as a field with that default, and a supplied stroke or fill
\* option has no field exactly when its value is empty (None, "", 0, 0.0).
C5_OmittedMarkerOptionsAbsentDefaultsEmitted ==
    RenderedOk =>
        \A o \in Options(cls) :
            IF cls = "GMarker"
            THEN args[o.arg] = Omitted => ~HasField(result.out, o.keys)
            ELSE IF args[o.arg] = Omitted
            THEN HasFieldValue(result.out, o.keys, o.default)
            ELSE HasField(result.out, o.keys) <=> args[o.arg] \notin EmptyValues

C5_Witness ==
    /\ RenderedOk /\ cls = "GPolygon"
    /\ args.stroke_color = Omitted /\ args.fill_color = PyStr("")
    /\ args.fill_opacity = PyFloat("0.8")

----------------------------------------------------------------------------
(* C6 *)

\* C6 as stated: whenever the constructor's input is not a geometry value
\* (a string, a tuple, a list or anything else), construction ends in the
\* type-mismatch error and not in an overlay.
C6_NonGeometryInputRaises ==
    (status # "none" /\ args.geom.py # "geom") =>
        status = "TypeError" /\ self = NoObj

\* C6 as amended: an input that is neither a geometry nor a string, tuple
\* or list ends construction in the type-mismatch error and not in an
\* overlay; a string, tuple or list is first turned into a geometry, and
\* construction ends in the type-mismatch error exactly when that geometry
\* is outside the accepted set of the class.
C6_UncoercibleInputRaises ==
    status # "none" =>
        /\ args.geom.py \notin {"geom", "basestring", "tuple", "list"} =>
                status = "TypeError" /\ self = NoObj
        /\ args.geom.py \in {"basestring", "tuple", "list"} =>
                /\ (status = "TypeError") <=>
                        KindSeen(cls, args.geom) \notin Accepted(cls)
                /\ status = "TypeError" => self = NoObj

C6_Witness ==
    /\ status = "TypeError" /\ self = NoObj
    /\ args.geom.py = "int"

----------------------------------------------------------------------------
(* C7 *)

\* C7: the rendered string has the form google.maps.<Class>({...}) and
\* every key of the options object is an option name of that API class.
C7_ValidConstructorCall ==
    RenderedOk =>
        LET out == result.out
        IN  /\ Len(out) >= 6
            /\ out[1] = "google.maps."
            /\ out[2] = JS_CLASSNAME(cls) /\ out[2] \in {"Marker", "Polyline", "Polygon"}
            /\ out[3] = "(" /\ out[4] = "{"
            /\ out[Len(out) - 1] = "}" /\ out[Len(out)] = ")"
            /\ \A i \in 1..(Len(out) - 1) :
                out[i + 1] \in {": ", ": \""} => out[i] \in ApiOptions(cls)

----------------------------------------------------------------------------
(* C8 *)

\* C8 as stated: once an overlay is constructed, no operation on it
\* (add_event, rendering) changes any part of its state.
C8_OverlayNeverChanges ==
    [][status = "ok" => self' = self]_vars

\* C8 as amended: once an overlay is constructed, rendering changes no part
\* of its state and rendering it again yields the same string; add_event is
\* the only operation that changes it, and it changes only the event list,
\* by appending the event.
C8_OnlyAddEventChangesOverlay ==
    [][status = "ok" =>
        /\ self' # self =>
            /\ \E e \in EventArgs : self' = [self EXCEPT !.events = Append(@, e)]
            /\ result' = result
        /\ (result.op = "render" /\ result'.op = "render" /\ self' = self) =>
                result' = result]_vars

C8_Witness ==
    /\ status = "ok" /\ RenderedOk
    /\ Len(self.events) > 0

----------------------------------------------------------------------------
(* C9 *)

\* index of the event the last unicode(event) was applied to
RenderedEvent == CHOOSE i \in 1..MaxEvents : ToString(i) = result.of

\* C9: a fresh overlay has no events; after any sequence of add_event calls
\* the event list is exactly the attached events in call order, duplicates
\* kept; each event renders as "<event-name>", <action> with the action
\* text unchanged.
C9_EventsInCallOrder ==
    /\ status = "ok" => self.events = calls
    /\ result.op = "event" =>
            /\ result.status = "ok"
            /\ result.out = <<"\"", calls[RenderedEvent].event, "\", ",
                              calls[RenderedEvent].action>>

C9_Witness ==
    /\ status = "ok" /\ Len(self.events) = 2
    /\ self.events[1] = self.events[2]
    /\ result.op = "event" /\ result.of = "2"

----------------------------------------------------------------------------
(* C10 *)

IsSet(val) == val # PyNone

\* the argument text _to_param is to emit for an offset
OffsetText(ctor, val) == <<", new google.maps." \o ctor \o "(", val.v, ")">>

\* C10: _to_param always emits the url first, the size iff size is set, the
\* origin iff size and origin are set, the anchor iff size, origin and
\* anchor are all set, in the order url, size, origin, anchor.
C10_PrefixChain ==
    result.op = "to_param" =>
        LET img == self[result.of]
            hasSize == IsSet(img.size)
            hasOrigin == hasSize /\ IsSet(img.origin)
            hasAnchor == hasOrigin /\ IsSet(img.anchor)
        IN  /\ result.status = "ok"
            /\ result.out =
                    <<"new google.maps.MarkerImage(", "(", img.url.v>>
                    \o (IF hasSize THEN OffsetText("Size", img.size) ELSE <<>>)
                    \o (IF hasOrigin THEN OffsetText("Point", img.origin) ELSE <<>>)
                    \o (IF hasAnchor THEN OffsetText("Point", img.anchor) ELSE <<>>)
                    \o <<")", ")">>

====
